---- MODULE Spec2Model ----
(***************************************************************************)
(* Status plumbing of the Kustomization API type                           *)
(* (api/v1beta2/kustomization_types.go): the condition writers, the        *)
(* readiness / inventory bookkeeping, message trimming and GetTimeout.     *)
(*                                                                         *)
(* Conventions                                                             *)
(*  - a Kustomization is a record with the Go field names;                 *)
(*  - a Go pointer is a record with an IsNil flag;                         *)
(*  - a time.Duration is a whole number of seconds;                        *)
(*  - a message is an ASCII string, so len() in bytes is its length in     *)
(*    characters;                                                          *)
(*  - metav1.Condition is kept without LastTransitionTime and its own      *)
(*    ObservedGeneration (the writers below always pass the zero value).   *)
(*                                                                         *)
(* State                                                                   *)
(*  - k: the Kustomization object;                                         *)
(*  - call: the last operation and its arguments;                          *)
(*  - ret: the value returned by the last accessor call;                   *)
(*  - onlyOutcomes: no setter (SetKustomizationReadiness,                  *)
(*    SetKustomizationHealthiness) has been called directly so far.        *)
(***************************************************************************)
EXTENDS Integers, Sequences, FiniteSets, TLC

VARIABLES k, call, ret, onlyOutcomes

vars == <<k, call, ret, onlyOutcomes>>

----------------------------------------------------------------------------
(* Program constants *)

MaxConditionMessageLength == 20000

ThirtySeconds == 30

ReadyCondition == "Ready"

HealthyCondition == "Healthy"

ProgressingReason == "Progressing"

ConditionTrue == "True"

ConditionFalse == "False"

ConditionUnknown == "Unknown"

DefaultObservedGeneration == -1

----------------------------------------------------------------------------
(* Bounds of the model *)

MaxGeneration == 2

MaxOver == 1

----------------------------------------------------------------------------
(* Input domains *)

Double(s) == s \o s

Pad(n) ==
    LET a == "xxxxxxxxxx"
        b == Double(Double(Double(Double(Double(Double(a))))))
        c == Double(Double(Double(Double(Double(Double(b))))))
    IN SubSeq(c, 1, n)

LongMessages == {Pad(MaxConditionMessageLength + d) : d \in 0..MaxOver}

Statuses == {ConditionTrue, ConditionFalse, ConditionUnknown}

NilInventory == [IsNil |-> TRUE, Entries |-> <<>>]

Inventory(entries) == [IsNil |-> FALSE, Entries |-> entries]

HealthCheckLists == {<<>>, <<"apps/Deployment/b">>}

NilDuration == [IsNil |-> TRUE, Duration |-> 0]

Intervals == {0, 20, 30, 40, 59, 60, 61, 300}

Timeouts == {NilDuration} \cup {[IsNil |-> FALSE, Duration |-> d] : d \in {0, 10, 29, 30, 31, 600}}

(* Inputs of the bookkeeping runs: every revision and inventory, one message *)
BookInputs ==
    [Messages    |-> {"applied"},
     Reasons     |-> {"ReconciliationSucceeded", "ApplyFailed"},
     Statuses    |-> Statuses,
     Revisions   |-> {"", "main/a1", "main/b2"},
     Inventories |-> {NilInventory, Inventory(<<>>), Inventory(<<"v1/ConfigMap/a">>)}]

(* Inputs of the condition runs: messages around the length limit, one revision *)
ConditionInputs ==
    [Messages    |-> LongMessages,
     Reasons     |-> {"ApplyFailed"},
     Statuses    |-> Statuses,
     Revisions   |-> {"main/a1"},
     Inventories |-> {Inventory(<<"v1/ConfigMap/a">>)}]

----------------------------------------------------------------------------
(* k8s.io/apimachinery/pkg/api/meta condition helpers *)

HasCondition(conditions, type) ==
    \E i \in 1..Len(conditions) : conditions[i].Type = type

FindStatusCondition(conditions, type) ==
    conditions[CHOOSE i \in 1..Len(conditions) :
                  /\ conditions[i].Type = type
                  /\ \A j \in 1..(i - 1) : conditions[j].Type # type]

SetStatusCondition(conditions, newCondition) ==
    IF ~HasCondition(conditions, newCondition.Type)
    THEN Append(conditions, newCondition)
    ELSE LET first == CHOOSE i \in 1..Len(conditions) :
                         /\ conditions[i].Type = newCondition.Type
                         /\ \A j \in 1..(i - 1) : conditions[j].Type # newCondition.Type
         IN [conditions EXCEPT ![first] = newCondition]

RemoveStatusCondition(conditions, type) ==
    SelectSeq(conditions, LAMBDA c : c.Type # type)

(* github.com/fluxcd/pkg/apis/meta *)
SetResourceCondition(obj, condition, status, reason, message) ==
    [obj EXCEPT !.Status.Conditions =
        SetStatusCondition(@, [Type |-> condition, Status |-> status,
                               Reason |-> reason, Message |-> message])]

----------------------------------------------------------------------------
(* kustomization_types.go *)

trimString(str, limit) ==
    IF Len(str) <= limit
    THEN str
    ELSE SubSeq(str, 1, limit) \o "..."

(* Variant: the conditions are reset to the single Ready condition *)
KustomizationProgressing_Reset(obj, message) ==
    [obj EXCEPT !.Status.Conditions =
        <<[Type |-> ReadyCondition, Status |-> ConditionUnknown,
           Reason |-> ProgressingReason, Message |-> message]>>]

KustomizationProgressing(obj, message) ==
    SetResourceCondition(obj, ReadyCondition, ConditionUnknown, ProgressingReason, message)

(* Variant: the health requirement looks at spec.wait only *)
SetKustomizationHealthiness_WaitOnly(obj, status, reason, message) ==
    IF ~obj.Spec.Wait
    THEN [obj EXCEPT !.Status.Conditions = RemoveStatusCondition(@, HealthyCondition)]
    ELSE SetResourceCondition(obj, HealthyCondition, status, reason,
                              trimString(message, MaxConditionMessageLength))

SetKustomizationHealthiness(obj, status, reason, message) ==
    IF ~obj.Spec.Wait /\ Len(obj.Spec.HealthChecks) = 0
    THEN [obj EXCEPT !.Status.Conditions = RemoveStatusCondition(@, HealthyCondition)]
    ELSE SetResourceCondition(obj, HealthyCondition, status, reason,
                              trimString(message, MaxConditionMessageLength))

(* Variant: the observed generation is not recorded *)
SetKustomizationReadiness_NoGeneration(obj, status, reason, message, revision) ==
    LET c == SetResourceCondition(obj, ReadyCondition, status, reason,
                                  trimString(message, MaxConditionMessageLength))
    IN [c EXCEPT !.Status.LastAttemptedRevision = revision]

SetKustomizationReadiness(obj, status, reason, message, revision) ==
    LET c == SetResourceCondition(obj, ReadyCondition, status, reason,
                                  trimString(message, MaxConditionMessageLength))
    IN [c EXCEPT !.Status.ObservedGeneration = c.Generation,
                 !.Status.LastAttemptedRevision = revision]

(* Variant: a failure also records the revision as applied *)
KustomizationNotReady_Applied(obj, revision, reason, message) ==
    LET r == SetKustomizationReadiness(obj, ConditionFalse, reason,
                 trimString(message, MaxConditionMessageLength), revision)
    IN [r EXCEPT !.Status.LastAttemptedRevision = revision,
                 !.Status.LastAppliedRevision = revision]

KustomizationNotReady(obj, revision, reason, message) ==
    LET r == SetKustomizationReadiness(obj, ConditionFalse, reason,
                 trimString(message, MaxConditionMessageLength), revision)
    IN IF revision # ""
       THEN [r EXCEPT !.Status.LastAttemptedRevision = revision]
       ELSE r

(* Variant: the new inventory is merged into the previous one *)
KustomizationNotReadyInventory_Merge(obj, inventory, revision, reason, message) ==
    LET r == SetKustomizationReadiness(obj, ConditionFalse, reason,
                 trimString(message, MaxConditionMessageLength), revision)
        h == SetKustomizationHealthiness(r, ConditionFalse, reason, reason)
    IN [h EXCEPT !.Status.Inventory =
           IF inventory.IsNil THEN @ ELSE Inventory(@.Entries \o inventory.Entries)]

KustomizationNotReadyInventory(obj, inventory, revision, reason, message) ==
    LET r == SetKustomizationReadiness(obj, ConditionFalse, reason,
                 trimString(message, MaxConditionMessageLength), revision)
        h == SetKustomizationHealthiness(r, ConditionFalse, reason, reason)
        a == IF revision # ""
             THEN [h EXCEPT !.Status.LastAttemptedRevision = revision]
             ELSE h
    IN [a EXCEPT !.Status.Inventory = inventory]

(* Variant: the applied revision is recorded only when it is not empty *)
KustomizationReadyInventory_GuardedApplied(obj, inventory, revision, reason, message) ==
    LET r == SetKustomizationReadiness(obj, ConditionTrue, reason,
                 trimString(message, MaxConditionMessageLength), revision)
        h == SetKustomizationHealthiness(r, ConditionTrue, reason, reason)
        a == IF revision # ""
             THEN [h EXCEPT !.Status.LastAppliedRevision = revision]
             ELSE h
    IN [a EXCEPT !.Status.Inventory = inventory]

KustomizationReadyInventory(obj, inventory, revision, reason, message) ==
    LET r == SetKustomizationReadiness(obj, ConditionTrue, reason,
                 trimString(message, MaxConditionMessageLength), revision)
        h == SetKustomizationHealthiness(r, ConditionTrue, reason, reason)
    IN [h EXCEPT !.Status.Inventory = inventory,
                 !.Status.LastAppliedRevision = revision]

(* Variant: an explicit timeout is returned before the minimum is applied *)
GetTimeout_NoClamp(obj) ==
    IF ~obj.Spec.Timeout.IsNil
    THEN obj.Spec.Timeout.Duration
    ELSE IF obj.Spec.Interval - ThirtySeconds < ThirtySeconds
         THEN ThirtySeconds
         ELSE obj.Spec.Interval - ThirtySeconds

GetTimeout(obj) ==
    LET duration == IF ~obj.Spec.Timeout.IsNil
                    THEN obj.Spec.Timeout.Duration
                    ELSE obj.Spec.Interval - ThirtySeconds
    IN IF duration < ThirtySeconds THEN ThirtySeconds ELSE duration

----------------------------------------------------------------------------
(* State after construction: a freshly admitted object, status defaulted *)

NewKustomization(interval, timeout, wait, healthChecks) ==
    [Generation |-> 1,
     Spec   |-> [Interval |-> interval, Timeout |-> timeout,
                 Wait |-> wait, HealthChecks |-> healthChecks],
     Status |-> [ObservedGeneration |-> DefaultObservedGeneration,
                 Conditions |-> <<>>,
                 LastAppliedRevision |-> "",
                 LastAttemptedRevision |-> "",
                 Inventory |-> NilInventory]]

NoCall == [name |-> "none"]

Init ==
    /\ \E wait \in BOOLEAN, healthChecks \in HealthCheckLists :
          k = NewKustomization(300, NilDuration, wait, healthChecks)
    /\ call = NoCall
    /\ ret = <<>>
    /\ onlyOutcomes = TRUE

----------------------------------------------------------------------------
(* Operations; In is the record of input domains of the run *)

Progressing(In) ==
    \E message \in In.Messages :
        /\ k' = KustomizationProgressing(k, message)
        /\ call' = [name |-> "KustomizationProgressing", message |-> message]
        /\ UNCHANGED <<ret, onlyOutcomes>>

Healthiness(In) ==
    \E status \in In.Statuses, reason \in In.Reasons, message \in In.Messages :
        /\ k' = SetKustomizationHealthiness(k, status, reason, message)
        /\ call' = [name |-> "SetKustomizationHealthiness", status |-> status,
                    reason |-> reason, message |-> message]
        /\ onlyOutcomes' = FALSE
        /\ UNCHANGED ret

Readiness(In) ==
    \E status \in In.Statuses, reason \in In.Reasons, message \in In.Messages,
       revision \in In.Revisions :
        /\ k' = SetKustomizationReadiness(k, status, reason, message, revision)
        /\ call' = [name |-> "SetKustomizationReadiness", status |-> status,
                    reason |-> reason, message |-> message, revision |-> revision]
        /\ onlyOutcomes' = FALSE
        /\ UNCHANGED ret

NotReady(In) ==
    \E revision \in In.Revisions, reason \in In.Reasons, message \in In.Messages :
        /\ k' = KustomizationNotReady(k, revision, reason, message)
        /\ call' = [name |-> "KustomizationNotReady", revision |-> revision,
                    reason |-> reason, message |-> message]
        /\ UNCHANGED <<ret, onlyOutcomes>>

NotReadyInventory(In) ==
    \E inventory \in In.Inventories, revision \in In.Revisions, reason \in In.Reasons,
       message \in In.Messages :
        /\ k' = KustomizationNotReadyInventory(k, inventory, revision, reason, message)
        /\ call' = [name |-> "KustomizationNotReadyInventory", inventory |-> inventory,
                    revision |-> revision, reason |-> reason, message |-> message]
        /\ UNCHANGED <<ret, onlyOutcomes>>

ReadyInventory(In) ==
    \E inventory \in In.Inventories, revision \in In.Revisions, reason \in In.Reasons,
       message \in In.Messages :
        /\ k' = KustomizationReadyInventory(k, inventory, revision, reason, message)
        /\ call' = [name |-> "KustomizationReadyInventory", inventory |-> inventory,
                    revision |-> revision, reason |-> reason, message |-> message]
        /\ UNCHANGED <<ret, onlyOutcomes>>

GetTimeoutCall ==
    /\ ret' = <<GetTimeout(k)>>
    /\ call' = [name |-> "GetTimeout"]
    /\ UNCHANGED <<k, onlyOutcomes>>

(* A user edit of the spec between attempts; the API server bumps the generation *)
EditWait ==
    /\ k.Generation < MaxGeneration
    /\ k' = [k EXCEPT !.Spec.Wait = ~@, !.Generation = @ + 1]
    /\ call' = [name |-> "EditWait"]
    /\ UNCHANGED <<ret, onlyOutcomes>>

EditHealthChecks ==
    /\ k.Generation < MaxGeneration
    /\ \E healthChecks \in HealthCheckLists \ {k.Spec.HealthChecks} :
          k' = [k EXCEPT !.Spec.HealthChecks = healthChecks, !.Generation = @ + 1]
    /\ call' = [name |-> "EditHealthChecks"]
    /\ UNCHANGED <<ret, onlyOutcomes>>

EditInterval ==
    /\ k.Generation < MaxGeneration
    /\ \E interval \in Intervals \ {k.Spec.Interval} :
          k' = [k EXCEPT !.Spec.Interval = interval, !.Generation = @ + 1]
    /\ call' = [name |-> "EditInterval"]
    /\ UNCHANGED <<ret, onlyOutcomes>>

EditTimeout ==
    /\ k.Generation < MaxGeneration
    /\ \E timeout \in Timeouts \ {k.Spec.Timeout} :
          k' = [k EXCEPT !.Spec.Timeout = timeout, !.Generation = @ + 1]
    /\ call' = [name |-> "EditTimeout"]
    /\ UNCHANGED <<ret, onlyOutcomes>>

(* Every exported status writer, interleaved with spec edits *)
Next ==
    \/ Progressing(BookInputs)
    \/ Healthiness(BookInputs)
    \/ Readiness(BookInputs)
    \/ NotReady(BookInputs)
    \/ NotReadyInventory(BookInputs)
    \/ ReadyInventory(BookInputs)
    \/ EditWait
    \/ EditHealthChecks

Spec == Init /\ [][Next]_vars

(* The same writers, with messages around the length limit *)
NextConditions ==
    \/ Progressing(ConditionInputs)
    \/ Healthiness(ConditionInputs)
    \/ Readiness(ConditionInputs)
    \/ NotReady(ConditionInputs)
    \/ NotReadyInventory(ConditionInputs)
    \/ ReadyInventory(ConditionInputs)
    \/ EditWait
    \/ EditHealthChecks

SpecConditions == Init /\ [][NextConditions]_vars

(* GetTimeout over every interval and timeout *)
InitTimeout ==
    /\ \E interval \in Intervals, timeout \in Timeouts :
          k = NewKustomization(interval, timeout, FALSE, <<>>)
    /\ call = NoCall
    /\ ret = <<>>
    /\ onlyOutcomes = TRUE

NextTimeout ==
    \/ GetTimeoutCall
    \/ EditInterval
    \/ EditTimeout

SpecTimeout == InitTimeout /\ [][NextTimeout]_vars

----------------------------------------------------------------------------
(* Vocabulary of the properties *)

Conditions(obj) == obj.Status.Conditions

HasReady(obj) == HasCondition(Conditions(obj), ReadyCondition)

HasHealthy(obj) == HasCondition(Conditions(obj), HealthyCondition)

Ready(obj) == FindStatusCondition(Conditions(obj), ReadyCondition)

Healthy(obj) == FindStatusCondition(Conditions(obj), HealthyCondition)

NeedsHealth(obj) == obj.Spec.Wait \/ Len(obj.Spec.HealthChecks) > 0

ReadyIsTrue(obj) == HasReady(obj) /\ Ready(obj).Status = ConditionTrue

Attempts ==
    {"KustomizationNotReady", "KustomizationNotReadyInventory", "KustomizationReadyInventory"}

Failures == {"KustomizationNotReady", "KustomizationNotReadyInventory"}

ReadinessWriters == Attempts \cup {"SetKustomizationReadiness"}

InventoryWriters == {"KustomizationNotReadyInventory", "KustomizationReadyInventory"}

HealthWriters ==
    {"SetKustomizationHealthiness", "KustomizationNotReadyInventory",
     "KustomizationReadyInventory"}

TruncationMarker == "..."

(* What the truncation rule asks to be stored for a given message *)
Stored(message) ==
    IF Len(message) > MaxConditionMessageLength
    THEN SubSeq(message, 1, MaxConditionMessageLength) \o TruncationMarker
    ELSE message

Max(a, b) == IF a >= b THEN a ELSE b

----------------------------------------------------------------------------
(* C1 (as stated): in every state reached by at least one operation, the   *)
(* Healthy condition exists if and only if wait=true or healthChecks is    *)
(* non-empty.                                                              *)
C1_HealthyPresenceEverywhere ==
    call.name # "none" => (HasHealthy(k) <=> NeedsHealth(k))

(* C1 (amended): right after an operation that runs                        *)
(* SetKustomizationHealthiness (itself, KustomizationNotReadyInventory,    *)
(* KustomizationReadyInventory) the Healthy condition exists iff wait=true *)
(* or healthChecks is non-empty; every other step (KustomizationProgressing,*)
(* KustomizationNotReady, SetKustomizationReadiness, a spec edit) leaves   *)
(* the presence of the Healthy condition as it was.                        *)
C1_HealthyPresenceAfterHealthWriter ==
    /\ [](call.name \in HealthWriters => (HasHealthy(k) <=> NeedsHealth(k)))
    /\ [][call'.name \notin HealthWriters => (HasHealthy(k') <=> HasHealthy(k))]_vars

C1_Witness ==
    /\ call.name = "KustomizationReadyInventory"
    /\ k.Generation > 1
    /\ HasHealthy(k)
    /\ ~k.Spec.Wait

(* C2 (as stated): a completed attempt (KustomizationNotReady,             *)
(* KustomizationNotReadyInventory, KustomizationReadyInventory) leaves     *)
(* observedGeneration equal to the generation of the object it was given;  *)
(* observedGeneration never decreases; KustomizationProgressing does not   *)
(* change it; it is -1 initially and stays as it is until one of those     *)
(* attempts completes.                                                     *)
C2_ObservedGenerationOnlyByAttempts ==
    /\ k.Status.ObservedGeneration = DefaultObservedGeneration
    /\ [][/\ call'.name \in Attempts =>
                k'.Status.ObservedGeneration = k.Generation
          /\ k'.Status.ObservedGeneration >= k.Status.ObservedGeneration
          /\ call'.name = "KustomizationProgressing" =>
                k'.Status.ObservedGeneration = k.Status.ObservedGeneration
          /\ call'.name \notin Attempts =>
                k'.Status.ObservedGeneration = k.Status.ObservedGeneration]_vars

(* C2 (amended): a completed attempt, and likewise a direct call of        *)
(* SetKustomizationReadiness, leaves observedGeneration equal to the       *)
(* generation of the object it was given; observedGeneration never         *)
(* decreases; KustomizationProgressing does not change it; it is -1        *)
(* initially and stays as it is until an attempt completes or              *)
(* SetKustomizationReadiness is called directly.                           *)
C2_ObservedGeneration ==
    /\ k.Status.ObservedGeneration = DefaultObservedGeneration
    /\ [][/\ call'.name \in ReadinessWriters =>
                k'.Status.ObservedGeneration = k.Generation
          /\ k'.Status.ObservedGeneration >= k.Status.ObservedGeneration
          /\ call'.name = "KustomizationProgressing" =>
                k'.Status.ObservedGeneration = k.Status.ObservedGeneration
          /\ call'.name \notin ReadinessWriters =>
                k'.Status.ObservedGeneration = k.Status.ObservedGeneration]_vars

C2_Witness ==
    /\ call.name \in Attempts
    /\ k.Generation = MaxGeneration
    /\ k.Status.ObservedGeneration = MaxGeneration

(* C3: lastAppliedRevision changes only in a KustomizationReadyInventory   *)
(* step, where it becomes the attempt's revision, and every other step     *)
(* leaves it unchanged; every completed attempt, successful or failed,     *)
(* sets lastAttemptedRevision to the attempt's revision.                   *)
C3_Revisions ==
    [][/\ call'.name = "KustomizationReadyInventory" =>
             k'.Status.LastAppliedRevision = call'.revision
       /\ call'.name # "KustomizationReadyInventory" =>
             k'.Status.LastAppliedRevision = k.Status.LastAppliedRevision
       /\ call'.name \in Attempts =>
             k'.Status.LastAttemptedRevision = call'.revision]_vars

C3_Witness ==
    /\ call.name \in Failures
    /\ call.revision = "main/b2"
    /\ k.Status.LastAttemptedRevision = "main/b2"
    /\ k.Status.LastAppliedRevision = "main/a1"

(* C4: KustomizationNotReady and KustomizationProgressing leave            *)
(* status.inventory unchanged; KustomizationNotReadyInventory and          *)
(* KustomizationReadyInventory set it to exactly the supplied inventory,   *)
(* whatever the previous one was.                                          *)
C4_Inventory ==
    [][/\ call'.name \in {"KustomizationNotReady", "KustomizationProgressing"} =>
             k'.Status.Inventory = k.Status.Inventory
       /\ call'.name \in InventoryWriters =>
             k'.Status.Inventory = call'.inventory]_vars

C4_Witness ==
    /\ call.name = "KustomizationNotReadyInventory"
    /\ call.inventory = Inventory(<<>>)
    /\ k.Status.Inventory = Inventory(<<>>)
    /\ k.Status.LastAppliedRevision # ""

(* C5 (as stated): every condition message stored by a status writer is    *)
(* the given message when it has at most 20000 characters, and its first   *)
(* 20000 characters followed by the truncation marker when it is longer.   *)
C5_EveryMessageTruncated ==
    [][/\ call'.name \in (Attempts \cup {"KustomizationProgressing",
                                         "SetKustomizationReadiness"}) =>
             Ready(k').Message = Stored(call'.message)
       /\ call'.name = "SetKustomizationHealthiness" /\ HasHealthy(k') =>
             Healthy(k').Message = Stored(call'.message)
       /\ call'.name \in InventoryWriters /\ HasHealthy(k') =>
             Healthy(k').Message = Stored(call'.reason)]_vars

(* C6: GetTimeout returns max(30s, interval-30s) when no timeout is set;   *)
(* with a timeout set it returns that timeout, the 30s minimum still       *)
(* applying.                                                               *)
C6_Timeout ==
    [][call'.name = "GetTimeout" =>
          /\ Len(ret') = 1
          /\ k.Spec.Timeout.IsNil =>
                ret'[1] = Max(ThirtySeconds, k.Spec.Interval - ThirtySeconds)
          /\ ~k.Spec.Timeout.IsNil /\ k.Spec.Timeout.Duration >= ThirtySeconds =>
                ret'[1] = k.Spec.Timeout.Duration
          /\ ret'[1] >= ThirtySeconds]_vars

C6_Witness ==
    /\ call.name = "GetTimeout"
    /\ k.Spec.Timeout.IsNil
    /\ k.Spec.Interval = 40
    /\ ret = <<30>>

(* C7: KustomizationProgressing sets the Ready condition to Unknown with   *)
(* reason Progressing and the given message, and leaves the Healthy        *)
(* condition as it was: present with the same status, reason and message,  *)
(* or absent.                                                              *)
C7_ProgressingKeepsHealthy ==
    [][call'.name = "KustomizationProgressing" =>
          /\ HasReady(k')
          /\ Ready(k').Status = ConditionUnknown
          /\ Ready(k').Reason = ProgressingReason
          /\ Ready(k').Message = call'.message
          /\ HasHealthy(k') <=> HasHealthy(k)
          /\ HasHealthy(k) => Healthy(k') = Healthy(k)]_vars

C7_Witness ==
    /\ call.name = "KustomizationProgressing"
    /\ HasHealthy(k)
    /\ Healthy(k).Status = ConditionTrue
    /\ Ready(k).Status = ConditionUnknown

(* C8 (as stated): after KustomizationProgressing status.conditions holds  *)
(* exactly one condition, of type Ready with status Unknown.               *)
C8_ProgressingResetsConditions ==
    [][call'.name = "KustomizationProgressing" =>
          /\ Len(Conditions(k')) = 1
          /\ Conditions(k')[1].Type = ReadyCondition
          /\ Conditions(k')[1].Status = ConditionUnknown]_vars

(* C9: as long as only the four outcome operations (and spec edits) have  *)
(* acted: whenever Ready is True, lastAppliedRevision equals               *)
(* lastAttemptedRevision; Ready becomes True only by                       *)
(* KustomizationReadyInventory, which leaves observedGeneration at the     *)
(* generation of that attempt, and while Ready stays True the generation   *)
(* and the two revisions recorded by that attempt stay as they are.        *)
C9_ReadyTrue ==
    /\ [](onlyOutcomes /\ ReadyIsTrue(k) =>
             k.Status.LastAppliedRevision = k.Status.LastAttemptedRevision)
    /\ [][onlyOutcomes' =>
          /\ call'.name = "KustomizationReadyInventory" =>
                /\ ReadyIsTrue(k')
                /\ k'.Status.ObservedGeneration = k.Generation
          /\ ReadyIsTrue(k') /\ call'.name # "KustomizationReadyInventory" =>
                /\ ReadyIsTrue(k)
                /\ k'.Status.ObservedGeneration = k.Status.ObservedGeneration
                /\ k'.Status.LastAppliedRevision = k.Status.LastAppliedRevision
                /\ k'.Status.LastAttemptedRevision = k.Status.LastAttemptedRevision]_vars

C9_Witness ==
    /\ onlyOutcomes
    /\ ReadyIsTrue(k)
    /\ call.name \in {"EditWait", "EditHealthChecks"}
    /\ k.Status.ObservedGeneration < k.Generation
    /\ k.Status.LastAppliedRevision = "main/b2"

(* C10 (as stated): a failure recorded with an empty revision              *)
(* (KustomizationNotReady or KustomizationNotReadyInventory with revision  *)
(* "") keeps the previous lastAttemptedRevision.                           *)
C10_EmptyRevisionKeepsLastAttempted ==
    [][call'.name \in Failures /\ call'.revision = "" =>
          k'.Status.LastAttemptedRevision = k.Status.LastAttemptedRevision]_vars

====
